---- MODULE Spec2Model ----
(***************************************************************************)
(* A model of one peer of rust-blockchain-example: the ledger held by App   *)
(* (src/src/main.rs) and the gossip handler that drives it                  *)
(* (src/src/p2p.rs).                                                        *)
(*                                                                          *)
(* Strings that the code inspects character by character (hash and          *)
(* previous_hash) are sequences of one-character strings; byte vectors are  *)
(* sequences of numbers in 0..255.  The ids of the blocks explored stay     *)
(* far below 2^64, so previous_block.id + 1 never overflows here.  A panic  *)
(* (expect on an Err or None, panic!) ends the process: it is an outcome    *)
(* of the operation, and the node takes no further step.                    *)
(***************************************************************************)
EXTENDS Integers, Sequences, FiniteSets, TLC

(***************************************************************************)
(* Bounds of the model.                                                     *)
(***************************************************************************)
\* longest ledger and longest remote chain that are explored
MaxLen == 3
\* nonces a miner tries are 0..MaxNonce
MaxNonce == 3
\* responses that may wait in the outbound channel
MaxOut == 1
\* longest digest given to the difficulty test on its own
MaxDigest == 2

(***************************************************************************)
(* Text and bytes.                                                          *)
(***************************************************************************)
Chr(s) == <<s>>

\* value of one hex digit as hex::decode reads it (both cases); -1: no digit
HexVal(c) ==
    CASE c = "0" -> 0  [] c = "1" -> 1  [] c = "2" -> 2  [] c = "3" -> 3
      [] c = "4" -> 4  [] c = "5" -> 5  [] c = "6" -> 6  [] c = "7" -> 7
      [] c = "8" -> 8  [] c = "9" -> 9
      [] c = "a" -> 10 [] c = "b" -> 11 [] c = "c" -> 12 [] c = "d" -> 13
      [] c = "e" -> 14 [] c = "f" -> 15
      [] c = "A" -> 10 [] c = "B" -> 11 [] c = "C" -> 12 [] c = "D" -> 13
      [] c = "E" -> 14 [] c = "F" -> 15
      [] OTHER -> -1

\* the digit hex::encode writes for a value 0..15 (lower case)
HexDigit(v) ==
    <<"0", "1", "2", "3", "4", "5", "6", "7",
      "8", "9", "a", "b", "c", "d", "e", "f">>[v + 1]

\* hex::decode: Err on an odd length or on a character that is no hex digit
hex_decode_ok(s) ==
    /\ Len(s) % 2 = 0
    /\ \A i \in 1..Len(s) : HexVal(s[i]) >= 0

\* hex::decode, the bytes of a string for which hex_decode_ok holds
hex_decode(s) ==
    [i \in 1..(Len(s) \div 2) |-> 16 * HexVal(s[2 * i - 1]) + HexVal(s[2 * i])]

\* hex::encode: two lower-case digits per byte
hex_encode(bytes) ==
    [i \in 1..(2 * Len(bytes)) |->
        IF i % 2 = 1 THEN HexDigit(bytes[(i + 1) \div 2] \div 16)
                     ELSE HexDigit(bytes[i \div 2] % 16)]

\* format!("{:b}", c): the binary digits of a byte without leading zeros
RECURSIVE format_b(_)
format_b(c) ==
    IF c < 2 THEN Chr(IF c = 0 THEN "0" ELSE "1")
    ELSE format_b(c \div 2) \o Chr(IF c % 2 = 0 THEN "0" ELSE "1")

RECURSIVE hash_to_binary_representation(_)
hash_to_binary_representation(hash) ==
    IF hash = <<>> THEN <<>>
    ELSE format_b(Head(hash)) \o hash_to_binary_representation(Tail(hash))

\* str::starts_with
starts_with(s, prefix) ==
    /\ Len(s) >= Len(prefix)
    /\ SubSeq(s, 1, Len(prefix)) = prefix

DIFFICULTY_PREFIX == <<"0", "0">>

(***************************************************************************)
(* The hasher.  calculate_hash is called by is_block_valid but its body is  *)
(* not among the sources; it is modelled from its contract: a pure,         *)
(* deterministic digest of the five fields.  The digest has 4 bytes; of     *)
(* the digests of the blocks that differ only in their nonce, one in four   *)
(* starts with two zero bytes.                                              *)
(***************************************************************************)
HashSpace == 262144

CharCode(c) ==
    IF HexVal(c) >= 0 /\ c \notin {"A", "B", "C", "D", "E", "F"} THEN HexVal(c)
    ELSE CASE c = "A" -> 16 [] c = "B" -> 17 [] c = "C" -> 18 [] c = "D" -> 19
           [] c = "E" -> 20 [] c = "F" -> 21 [] c = "g" -> 22 [] c = "n" -> 23
           [] c = "s" -> 24 [] c = "i" -> 25 [] c = "z" -> 26 [] OTHER -> 27

\* a number for a text, computed over its two halves
RECURSIVE StrCode(_)
StrCode(s) ==
    IF Len(s) = 0 THEN 7
    ELSE IF Len(s) = 1 THEN 29 + CharCode(s[1])
    ELSE LET h == Len(s) \div 2
         IN  (131 * StrCode(SubSeq(s, 1, h)) + StrCode(SubSeq(s, h + 1, Len(s)))
                 + Len(s)) % 65521

DataCode(data) ==
    CASE data = "genesis!" -> 3 [] data = "a" -> 5 [] data = "b" -> 6
      [] data = "c" -> 9 [] OTHER -> 11

Mix(id, timestamp, previous_hash, data, nonce) ==
    (1029 * id + 4101 * timestamp + 5 * StrCode(previous_hash)
        + 16389 * DataCode(data) + nonce) % HashSpace

calculate_hash(id, timestamp, previous_hash, data, nonce) ==
    LET m == Mix(id, timestamp, previous_hash, data, nonce)
    IN  << (m % 2) * 63, ((m \div 2) % 2) * 255,
           (m \div 4) % 256, (m \div 1024) % 256 >>

(***************************************************************************)
(* Blocks and the App.                                                      *)
(***************************************************************************)
Block(id, hash, previous_hash, timestamp, data, nonce) ==
    [id |-> id, hash |-> hash, previous_hash |-> previous_hash,
     timestamp |-> timestamp, data |-> data, nonce |-> nonce]

\* the genesis hash "0000f816a87f806b...": as the model's digests have 4
\* bytes in place of SHA-256's 32, its first 4 bytes
GENESIS_HASH == <<"0", "0", "0", "0", "f", "8", "1", "6">>

GENESIS_PREVIOUS_HASH == <<"g", "e", "n", "e", "s", "i", "s">>

GENESIS_NONCE == 2836

\* the block App::genesis pushes; timestamp is Utc::now().timestamp()
genesis_block(timestamp) ==
    Block(0, GENESIS_HASH, GENESIS_PREVIOUS_HASH, timestamp, "genesis!",
          GENESIS_NONCE)

\* is_block_valid without the check of the id
is_block_valid_no_id(block, previous_block) ==
    IF block.previous_hash # previous_block.hash THEN "wrong previous hash"
    ELSE IF ~hex_decode_ok(block.hash) THEN "panic"
    ELSE IF ~starts_with(hash_to_binary_representation(hex_decode(block.hash)),
                         DIFFICULTY_PREFIX) THEN "invalid difficulty"
    ELSE IF hex_encode(calculate_hash(block.id, block.timestamp,
                                      block.previous_hash, block.data,
                                      block.nonce)) # block.hash
         THEN "invalid hash"
    ELSE "valid"

\* is_block_valid without the check of the hash against the fields
is_block_valid_no_hash(block, previous_block) ==
    IF block.previous_hash # previous_block.hash THEN "wrong previous hash"
    ELSE IF ~hex_decode_ok(block.hash) THEN "panic"
    ELSE IF ~starts_with(hash_to_binary_representation(hex_decode(block.hash)),
                         DIFFICULTY_PREFIX) THEN "invalid difficulty"
    ELSE IF block.id # previous_block.id + 1 THEN "not the next block"
    ELSE "valid"

\* is_block_valid with the check of the id ahead of the difficulty check
is_block_valid_id_first(block, previous_block) ==
    IF block.previous_hash # previous_block.hash THEN "wrong previous hash"
    ELSE IF block.id # previous_block.id + 1 THEN "not the next block"
    ELSE IF ~hex_decode_ok(block.hash) THEN "panic"
    ELSE IF ~starts_with(hash_to_binary_representation(hex_decode(block.hash)),
                         DIFFICULTY_PREFIX) THEN "invalid difficulty"
    ELSE IF hex_encode(calculate_hash(block.id, block.timestamp,
                                      block.previous_hash, block.data,
                                      block.nonce)) # block.hash
         THEN "invalid hash"
    ELSE "valid"

\* App::is_block_valid: "valid", the reason of the first check that fails,
\* or "panic" when hex::decode(..).expect(..) meets a hash that is no hex
is_block_valid(block, previous_block) ==
    IF block.previous_hash # previous_block.hash THEN "wrong previous hash"
    ELSE IF ~hex_decode_ok(block.hash) THEN "panic"
    ELSE IF ~starts_with(hash_to_binary_representation(hex_decode(block.hash)),
                         DIFFICULTY_PREFIX) THEN "invalid difficulty"
    ELSE IF block.id # previous_block.id + 1 THEN "not the next block"
    ELSE IF hex_encode(calculate_hash(block.id, block.timestamp,
                                      block.previous_hash, block.data,
                                      block.nonce)) # block.hash
         THEN "invalid hash"
    ELSE "valid"

\* App::is_chain_valid from index i on (1-based; the loop skips the first
\* element): "valid", "invalid", or "panic" when a pair's check panics
\* before any earlier pair has failed
RECURSIVE chain_valid_from(_, _)
chain_valid_from(chain, i) ==
    IF i > Len(chain) THEN "valid"
    ELSE LET r == is_block_valid(chain[i], chain[i - 1])
         IN  IF r = "valid" THEN chain_valid_from(chain, i + 1)
             ELSE IF r = "panic" THEN "panic"
             ELSE "invalid"

\* is_chain_valid that checks the last pair only
is_chain_valid_last_pair(chain) == chain_valid_from(chain, Len(chain))

is_chain_valid(chain) == chain_valid_from(chain, 2)

\* choose_chain where a remote chain as long as the local one wins
choose_chain_ties_remote(local, remote) ==
    LET is_local_valid == is_chain_valid(local)
        is_remote_valid == is_chain_valid(remote)
    IN  IF is_local_valid = "panic" THEN [panic |-> TRUE, chain |-> local]
        ELSE IF is_remote_valid = "panic" THEN [panic |-> TRUE, chain |-> local]
        ELSE IF is_local_valid = "valid" /\ is_remote_valid = "valid"
             THEN IF Len(local) > Len(remote)
                  THEN [panic |-> FALSE, chain |-> local]
                  ELSE [panic |-> FALSE, chain |-> remote]
        ELSE IF is_remote_valid = "valid" /\ is_local_valid # "valid"
             THEN [panic |-> FALSE, chain |-> remote]
        ELSE IF is_remote_valid # "valid" /\ is_local_valid = "valid"
             THEN [panic |-> FALSE, chain |-> local]
        ELSE [panic |-> TRUE, chain |-> local]

\* choose_chain where the local chain wins whenever both are valid
choose_chain_keeps_local(local, remote) ==
    LET is_local_valid == is_chain_valid(local)
        is_remote_valid == is_chain_valid(remote)
    IN  IF is_local_valid = "panic" THEN [panic |-> TRUE, chain |-> local]
        ELSE IF is_remote_valid = "panic" THEN [panic |-> TRUE, chain |-> local]
        ELSE IF is_local_valid = "valid" /\ is_remote_valid = "valid"
             THEN [panic |-> FALSE, chain |-> local]
        ELSE IF is_remote_valid = "valid" /\ is_local_valid # "valid"
             THEN [panic |-> FALSE, chain |-> remote]
        ELSE IF is_remote_valid # "valid" /\ is_local_valid = "valid"
             THEN [panic |-> FALSE, chain |-> local]
        ELSE [panic |-> TRUE, chain |-> local]

\* choose_chain that takes the longer chain when only one is valid
choose_chain_longest(local, remote) ==
    LET is_local_valid == is_chain_valid(local)
        is_remote_valid == is_chain_valid(remote)
    IN  IF is_local_valid = "panic" THEN [panic |-> TRUE, chain |-> local]
        ELSE IF is_remote_valid = "panic" THEN [panic |-> TRUE, chain |-> local]
        ELSE IF is_local_valid = "valid" \/ is_remote_valid = "valid"
             THEN IF Len(local) >= Len(remote)
                  THEN [panic |-> FALSE, chain |-> local]
                  ELSE [panic |-> FALSE, chain |-> remote]
        ELSE [panic |-> TRUE, chain |-> local]

\* choose_chain where the remote chain wins whenever both are valid
choose_chain_prefers_remote(local, remote) ==
    LET is_local_valid == is_chain_valid(local)
        is_remote_valid == is_chain_valid(remote)
    IN  IF is_local_valid = "panic" THEN [panic |-> TRUE, chain |-> local]
        ELSE IF is_remote_valid = "panic" THEN [panic |-> TRUE, chain |-> local]
        ELSE IF is_local_valid = "valid" /\ is_remote_valid = "valid"
             THEN [panic |-> FALSE, chain |-> remote]
        ELSE IF is_remote_valid = "valid" /\ is_local_valid # "valid"
             THEN [panic |-> FALSE, chain |-> remote]
        ELSE IF is_remote_valid # "valid" /\ is_local_valid = "valid"
             THEN [panic |-> FALSE, chain |-> local]
        ELSE [panic |-> TRUE, chain |-> local]

\* App::choose_chain: [panic |-> FALSE, chain |-> the chosen chain], or
\* [panic |-> TRUE] when a validation panics or both chains are invalid
choose_chain(local, remote) ==
    LET is_local_valid == is_chain_valid(local)
        is_remote_valid == is_chain_valid(remote)
    IN  IF is_local_valid = "panic" THEN [panic |-> TRUE, chain |-> local]
        ELSE IF is_remote_valid = "panic" THEN [panic |-> TRUE, chain |-> local]
        ELSE IF is_local_valid = "valid" /\ is_remote_valid = "valid"
             THEN IF Len(local) >= Len(remote)
                  THEN [panic |-> FALSE, chain |-> local]
                  ELSE [panic |-> FALSE, chain |-> remote]
        ELSE IF is_remote_valid = "valid" /\ is_local_valid # "valid"
             THEN [panic |-> FALSE, chain |-> remote]
        ELSE IF is_remote_valid # "valid" /\ is_local_valid = "valid"
             THEN [panic |-> FALSE, chain |-> local]
        ELSE [panic |-> TRUE, chain |-> local]

(***************************************************************************)
(* What peers may send.  The miner and the other peers are outside the      *)
(* program; these sets are the inputs the handler is run on.                *)
(***************************************************************************)
PEER_ID == "peer1"
Sources == {"peer2", "peer3"}
Identities == {PEER_ID, "peer2"}

GenesisTimes == {1}
BlockTimes == {3}
Data == {"a", "b"}

meets_difficulty(hash) ==
    starts_with(hash_to_binary_representation(hash), DIFFICULTY_PREFIX)

\* the block a miner finds for these fields: the least nonce whose digest
\* meets the difficulty
mine(id, previous_hash, timestamp, data) ==
    LET ok(n) == meets_difficulty(calculate_hash(id, timestamp, previous_hash, data, n))
        nonce == CHOOSE n \in 0..MaxNonce : ok(n) /\ \A k \in 0..(n - 1) : ~ok(k)
    IN  Block(id, hex_encode(calculate_hash(id, timestamp, previous_hash, data, nonce)),
              previous_hash, timestamp, data, nonce)

\* the blocks honest miners may announce on top of previous_block
Extensions(previous_block) ==
    { mine(previous_block.id + 1, previous_block.hash, t, d) :
        t \in BlockTimes, d \in Data }

OtherData(d) == IF d = "a" THEN "c" ELSE "a"
UpperCase(c) ==
    CASE c = "a" -> "A" [] c = "b" -> "B" [] c = "c" -> "C" [] c = "d" -> "D"
      [] c = "e" -> "E" [] c = "f" -> "F" [] OTHER -> c
STALE_HASH == <<"0", "0", "0", "0", "1", "2", "3", "4">>

\* a block as a faulty or hostile peer may change it
Tampered(b) ==
    { \* one field changed, the hash left as it was
      [b EXCEPT !.previous_hash = STALE_HASH],
      [b EXCEPT !.id = b.id + 1],
      [b EXCEPT !.data = OtherData(b.data)],
      [b EXCEPT !.nonce = b.nonce + 1],
      [b EXCEPT !.timestamp = b.timestamp + 1],
      \* the hash changed: another digest with enough work, the digest of
      \* the same fields under a nonce without enough work, upper-case
      \* digits, text that is no hex, an odd number of digits, no text
      [b EXCEPT !.hash = STALE_HASH],
      [b EXCEPT !.hash = hex_encode(calculate_hash(b.id, b.timestamp,
                             b.previous_hash, b.data, b.nonce + 1)),
                !.nonce = b.nonce + 1],
      [b EXCEPT !.hash = [i \in 1..Len(b.hash) |-> UpperCase(b.hash[i])]],
      [b EXCEPT !.hash = <<"z", "z">>],
      [b EXCEPT !.hash = <<"0", "0", "0">>],
      [b EXCEPT !.hash = <<>>],
      \* mined again for the wrong place: fields and hash agree
      mine(b.id + 1, b.previous_hash, b.timestamp, b.data),
      mine(b.id, STALE_HASH, b.timestamp, b.data) }

\* the block an honest miner announces first
FirstExtension(previous_block) ==
    mine(previous_block.id + 1, previous_block.hash, 3, "a")

Candidates(previous_block) ==
    Extensions(previous_block) \cup Tampered(FirstExtension(previous_block))

\* a first block that is not the genesis block; its hash is no hex
FOREIGN_FIRST ==
    Block(7, <<"z", "z">>, <<"n", "i", "l">>, 9, "c", 0)

Roots == { genesis_block(t) : t \in GenesisTimes } \cup {FOREIGN_FIRST}

Last(chain) == chain[Len(chain)]

\* the chains of exactly n blocks that honest miners build on a root
RECURSIVE HonestChains(_)
HonestChains(n) ==
    IF n = 1 THEN { <<r>> : r \in Roots }
    ELSE UNION { { Append(c, b) : b \in Extensions(Last(c)) } :
                 c \in HonestChains(n - 1) }

\* the chain of n blocks on a root in which every miner announced first
RECURSIVE FirstChain(_, _)
FirstChain(root, n) ==
    IF n = 1 THEN <<root>>
    ELSE LET c == FirstChain(root, n - 1) IN Append(c, FirstExtension(Last(c)))

\* the changes of Tampered that make the five kinds of bad block
TamperedInChain(b) ==
    { [b EXCEPT !.previous_hash = STALE_HASH],
      [b EXCEPT !.data = OtherData(b.data)],
      [b EXCEPT !.hash = hex_encode(calculate_hash(b.id, b.timestamp,
                             b.previous_hash, b.data, b.nonce + 1)),
                !.nonce = b.nonce + 1],
      [b EXCEPT !.hash = <<"z", "z">>],
      mine(b.id + 1, b.previous_hash, b.timestamp, b.data) }

\* chains on the genesis block in which one later block was changed
TamperedChains(n) ==
    UNION { { [FirstChain(r, n) EXCEPT ![i] = t] :
                t \in TamperedInChain(FirstChain(r, n)[i]) } :
            r \in { genesis_block(t) : t \in GenesisTimes }, i \in 2..n }

RemoteChains ==
    {<<>>} \cup UNION { HonestChains(n) \cup TamperedChains(n) : n \in 1..MaxLen }

NoBlock == Block(0, <<>>, <<>>, 0, "", 0)

\* a payload: the shapes it parses as (serde_json::from_slice succeeds for
\* a shape when the fields of that shape are present), and the fields
Payload(shapes, source, receiver, chain, from_peer_id, block) ==
    [shapes |-> shapes, source |-> source, receiver |-> receiver,
     blocks |-> chain, from_peer_id |-> from_peer_id, block |-> block]

NoPayload == Payload({}, "", "", <<>>, "", NoBlock)

\* a chain whose last block has a hash that is no hex
BadHexChain ==
    LET c == FirstChain(genesis_block(1), 2)
    IN  [c EXCEPT ![2] = [c[2] EXCEPT !.hash = <<"z", "z">>]]

ChainResponses ==
    { Payload({"ChainResponse"}, "peer2", PEER_ID, c, "", NoBlock) :
        c \in RemoteChains }
        \cup { Payload({"ChainResponse"}, "peer3", "peer2", c, "", NoBlock) :
                 c \in { FirstChain(r, MaxLen) : r \in Roots } \cup {BadHexChain} }

LocalChainRequests ==
    { Payload({"LocalChainRequest"}, s, "", <<>>, p, NoBlock) :
        s \in Sources, p \in Identities }

\* the block announcements build on: the last block of the ledger (the
\* genesis block for a ledger that holds none)
Tip(ledger) == IF ledger = <<>> THEN genesis_block(1) ELSE Last(ledger)

BlockAnnouncements(ledger) ==
    { Payload({"Block"}, "peer2", "", <<>>, "", b) :
        b \in Candidates(Tip(ledger)) }

\* payloads with the fields of more than one shape, and of none
OtherPayloads(ledger) ==
    { Payload({"ChainResponse", "LocalChainRequest"}, "peer3", "peer2",
              FirstChain(genesis_block(1), MaxLen), PEER_ID, NoBlock),
      Payload({"LocalChainRequest", "Block"}, "peer3", "", <<>>, "peer2",
              FirstExtension(Tip(ledger))),
      Payload({"ChainResponse", "Block"}, "peer3", "peer2", <<>>, "",
              FirstExtension(Tip(ledger))),
      Payload({}, "peer3", "", <<>>, "", NoBlock) }

\* the payloads delivered to a node whose ledger is `ledger`
Deliverable(ledger) ==
    ChainResponses
        \cup LocalChainRequests
        \cup BlockAnnouncements(ledger)
        \cup OtherPayloads(ledger)

(***************************************************************************)
(* The handler of inbound payloads.                                         *)
(***************************************************************************)
\* the outcome of handling a payload: the ledger afterwards, whether the
\* process panicked, and the responses sent into the outbound channel
Outcome(ledger, panic, sent) ==
    [blocks |-> ledger, panic |-> panic, sent |-> sent]

\* try_add_block that pushes the block whatever the validator says
try_add_block_always(ledger, block) ==
    IF ledger = <<>> THEN Outcome(ledger, TRUE, <<>>)
    ELSE LET r == is_block_valid(block, Last(ledger))
         IN  IF r = "panic" THEN Outcome(ledger, TRUE, <<>>)
             ELSE Outcome(Append(ledger, block), FALSE, <<>>)

\* App::try_add_block on the ledger
try_add_block(ledger, block) ==
    IF ledger = <<>> THEN Outcome(ledger, TRUE, <<>>)
    ELSE LET r == is_block_valid(block, Last(ledger))
         IN  IF r = "panic" THEN Outcome(ledger, TRUE, <<>>)
             ELSE IF r = "valid" THEN Outcome(Append(ledger, block), FALSE, <<>>)
             ELSE Outcome(ledger, FALSE, <<>>)

\* the if-let chain with the Block shape tried first
branch_of_block_first(msg) ==
    IF "Block" \in msg.shapes THEN "Block"
    ELSE IF "ChainResponse" \in msg.shapes THEN "ChainResponse"
    ELSE IF "LocalChainRequest" \in msg.shapes THEN "LocalChainRequest"
    ELSE "none"

\* the branch of inject_event that takes a payload: the first shape that
\* parses, tried in the order of the if-let chain
branch_of(msg) ==
    IF "ChainResponse" \in msg.shapes THEN "ChainResponse"
    ELSE IF "LocalChainRequest" \in msg.shapes THEN "LocalChainRequest"
    ELSE IF "Block" \in msg.shapes THEN "Block"
    ELSE "none"

\* the ChainResponse branch without the check of the receiver
on_chain_response_any_receiver(peer_id, ledger, msg) ==
    LET r == choose_chain(ledger, msg.blocks)
    IN  IF r.panic THEN Outcome(ledger, TRUE, <<>>)
        ELSE Outcome(r.chain, FALSE, <<>>)

\* the ChainResponse branch that keeps the ledger whatever arrives
on_chain_response_ignored(peer_id, ledger, msg) ==
    IF msg.receiver = peer_id
    THEN LET r == choose_chain(ledger, msg.blocks)
         IN  IF r.panic THEN Outcome(ledger, TRUE, <<>>)
             ELSE Outcome(ledger, FALSE, <<>>)
    ELSE Outcome(ledger, FALSE, <<>>)

\* the ChainResponse branch
on_chain_response(peer_id, ledger, msg) ==
    IF msg.receiver = peer_id
    THEN LET r == choose_chain(ledger, msg.blocks)
         IN  IF r.panic THEN Outcome(ledger, TRUE, <<>>)
             ELSE Outcome(r.chain, FALSE, <<>>)
    ELSE Outcome(ledger, FALSE, <<>>)

\* the LocalChainRequest branch that addresses the response to the peer
\* named in the request
on_chain_request_to_named(peer_id, ledger, msg) ==
    IF peer_id = msg.from_peer_id
    THEN Outcome(ledger, FALSE,
                 << [blocks |-> ledger, receiver |-> msg.from_peer_id] >>)
    ELSE Outcome(ledger, FALSE, <<>>)

\* the LocalChainRequest branch that answers every request
on_chain_request_any_target(peer_id, ledger, msg) ==
    Outcome(ledger, FALSE, << [blocks |-> ledger, receiver |-> msg.source] >>)

\* the LocalChainRequest branch
on_chain_request(peer_id, ledger, msg) ==
    IF peer_id = msg.from_peer_id
    THEN Outcome(ledger, FALSE,
                 << [blocks |-> ledger, receiver |-> msg.source] >>)
    ELSE Outcome(ledger, FALSE, <<>>)

\* NetworkBehaviourEventProcess<FloodsubEvent>::inject_event of the peer
\* peer_id whose ledger is `ledger`
on_message(peer_id, ledger, msg) ==
    IF branch_of(msg) = "ChainResponse" THEN on_chain_response(peer_id, ledger, msg)
    ELSE IF branch_of(msg) = "LocalChainRequest"
         THEN on_chain_request(peer_id, ledger, msg)
    ELSE IF branch_of(msg) = "Block" THEN try_add_block(ledger, msg.block)
    ELSE Outcome(ledger, FALSE, <<>>)

(***************************************************************************)
(* The node.                                                                *)
(***************************************************************************)
VARIABLES
    blocks,           \* App.blocks
    status,           \* "new", "running", or "panicked"
    response_sender,  \* the responses sent into the outbound channel
    last_event,       \* the payload handled last
    selection,        \* a call of choose_chain on its own: arguments, result
    peers,            \* a network of nodes: ledger, status, outbound channel
    in_flight,        \* payloads published and not yet delivered
    to_request,       \* <<p, q>>: p has yet to ask q for its chain
    started_with,     \* the ledger each peer of the network started with
    call,             \* a call of a validation function on its own
    partial_view,     \* floodsub: the peers of the active gossip group
    mdns_nodes,       \* mdns: the <<peer, address>> records it holds
    mdns_event        \* the MdnsEvent handled last

node_vars == <<blocks, status, response_sender, last_event>>
net_vars == <<peers, in_flight, to_request, started_with>>
aux_vars == <<call, partial_view, mdns_nodes, mdns_event>>
vars == <<blocks, status, response_sender, last_event, selection,
          peers, in_flight, to_request, started_with,
          call, partial_view, mdns_nodes, mdns_event>>

NoSelection == [pc |-> "idle", local |-> <<>>, remote |-> <<>>,
                panic |-> FALSE, chain |-> <<>>]

NodeIdle ==
    /\ blocks = <<>>
    /\ status = "new"
    /\ response_sender = <<>>
    /\ last_event = NoPayload

NetIdle ==
    /\ peers = <<>>
    /\ in_flight = {}
    /\ to_request = {}
    /\ started_with = <<>>

NoCall == [pc |-> "idle", fn |-> "", block |-> NoBlock,
           previous_block |-> NoBlock, hash |-> <<>>, original |-> <<>>,
           index |-> 0, chain |-> <<>>, result |-> ""]

NoMdnsEvent == [kind |-> "none", list |-> {}]

AuxIdle ==
    /\ call = NoCall
    /\ partial_view = {}
    /\ mdns_nodes = {}
    /\ mdns_event = NoMdnsEvent

\* App::new
Init ==
    /\ NodeIdle
    /\ selection = NoSelection
    /\ NetIdle
    /\ AuxIdle

\* App::genesis, called once when the node starts
genesis ==
    /\ status = "new"
    /\ \E t \in GenesisTimes : blocks' = Append(blocks, genesis_block(t))
    /\ status' = "running"
    /\ UNCHANGED <<response_sender, last_event, selection, net_vars, aux_vars>>

\* inject_event on this node; a panic ends the process
inject_event(msg) ==
    \E r \in {on_message(PEER_ID, blocks, msg)} :
        /\ status = "running"
        /\ last_event' = msg
        /\ blocks' = r.blocks
        /\ status' = IF r.panic THEN "panicked" ELSE status
        /\ response_sender' = response_sender \o r.sent
        /\ UNCHANGED <<selection, net_vars, aux_vars>>

deliver ==
    /\ status = "running"
    /\ \E msg \in Deliverable(blocks) :
          /\ Len(blocks) < MaxLen \/ branch_of(msg) # "Block"
          /\ Len(response_sender) < MaxOut \/ branch_of(msg) # "LocalChainRequest"
          /\ inject_event(msg)

Next == genesis \/ deliver

Spec == Init /\ [][Next]_vars

(***************************************************************************)
(* choose_chain on its own, on any two chains.                              *)
(***************************************************************************)
InitFork ==
    /\ NodeIdle
    /\ NetIdle
    /\ AuxIdle
    /\ \E l \in RemoteChains, r \in RemoteChains :
          selection = [pc |-> "called", local |-> l, remote |-> r,
                       panic |-> FALSE, chain |-> <<>>]

select ==
    /\ selection.pc = "called"
    /\ \E r \in {choose_chain(selection.local, selection.remote)} :
          selection' = [selection EXCEPT !.pc = "returned",
                                         !.panic = r.panic,
                                         !.chain = IF r.panic THEN <<>> ELSE r.chain]
    /\ UNCHANGED <<node_vars, net_vars, aux_vars>>

NextFork == select

SpecFork == InitFork /\ [][NextFork]_vars

(***************************************************************************)
(* A network of nodes that exchange their chains.  Every node runs          *)
(* on_message; the task that asks for chains and the transport that         *)
(* broadcasts what is published are not among the sources and follow        *)
(* their description: a request or response is published to every other     *)
(* peer, and carries its publisher as source.                               *)
(***************************************************************************)
Peers == {"peer1", "peer2"}

\* the ledgers peers start the exchange with: chains honest miners built
StartChains == UNION { HonestChains(n) : n \in 1..MaxLen }

Peer(ledger) == [blocks |-> ledger, status |-> "running", response_sender |-> <<>>]

InitNet ==
    /\ NodeIdle
    /\ selection = NoSelection
    /\ AuxIdle
    /\ started_with \in [Peers -> StartChains]
    /\ peers = [p \in Peers |-> Peer(started_with[p])]
    /\ in_flight = {}
    /\ to_request = { pq \in Peers \X Peers : pq[1] # pq[2] }

Published(publisher, msg) ==
    { [to |-> r, msg |-> msg] : r \in Peers \ {publisher} }

\* p asks q for its chain
send_request(p, q) ==
    /\ <<p, q>> \in to_request
    /\ peers[p].status = "running"
    /\ to_request' = to_request \ {<<p, q>>}
    /\ in_flight' = in_flight \cup
          Published(p, Payload({"LocalChainRequest"}, p, "", <<>>, q, NoBlock))
    /\ UNCHANGED <<node_vars, selection, peers, started_with, aux_vars>>

\* inject_event on the peer a payload is delivered to
receive(f) ==
    /\ f \in in_flight
    /\ peers[f.to].status = "running"
    /\ \E r \in {on_message(f.to, peers[f.to].blocks, f.msg)} :
          peers' = [peers EXCEPT ![f.to] =
                      [blocks |-> r.blocks,
                       status |-> IF r.panic THEN "panicked" ELSE "running",
                       response_sender |-> peers[f.to].response_sender \o r.sent]]
    /\ in_flight' = in_flight \ {f}
    /\ UNCHANGED <<node_vars, selection, to_request, started_with, aux_vars>>

\* the response at the head of p's outbound channel is published
publish(p) ==
    /\ peers[p].response_sender # <<>>
    /\ LET resp == Head(peers[p].response_sender)
       IN  in_flight' = in_flight \cup
              Published(p, Payload({"ChainResponse"}, p, resp.receiver,
                                   resp.blocks, "", NoBlock))
    /\ peers' = [peers EXCEPT ![p].response_sender = Tail(@)]
    /\ UNCHANGED <<node_vars, selection, to_request, started_with, aux_vars>>

NextNet ==
    \/ \E p \in Peers, q \in Peers : send_request(p, q)
    \/ \E f \in in_flight : receive(f)
    \/ \E p \in Peers : publish(p)

SpecNet == InitNet /\ [][NextNet]_vars

(***************************************************************************)
(* The validation functions on their own: is_block_valid on a candidate     *)
(* and a previous block, the difficulty test on a digest, is_chain_valid    *)
(* on a chain.                                                              *)
(***************************************************************************)
\* a hash that is hex and has no two leading zero bytes
LOW_WORK_HASH == <<"3", "f", "0", "0", "1", "2", "3", "4">>

\* candidates that fail any of the checks, alone or together
ValidatorBlocks(previous_block) ==
    UNION { { Block(id, h, ph, 3, "a", n) :
                h \in { hex_encode(calculate_hash(id, 3, ph, "a", n)),
                        STALE_HASH, LOW_WORK_HASH, <<"z", "z">> } } :
            id \in { previous_block.id + 1, previous_block.id + 2 },
            ph \in { previous_block.hash, STALE_HASH },
            n \in 0..MaxNonce }

BlockCalls ==
    { [NoCall EXCEPT !.pc = "called", !.fn = "is_block_valid",
                     !.block = b, !.previous_block = p] :
        p \in { genesis_block(1), FirstExtension(genesis_block(1)) },
        b \in ValidatorBlocks(genesis_block(1))
                 \cup ValidatorBlocks(FirstExtension(genesis_block(1))) }

\* bytes at the edges of the numbers of leading zero bits
WorkBytes == {0, 1, 63, 64, 127, 128, 255}

RECURSIVE Digests(_)
Digests(n) ==
    IF n = 0 THEN {<<>>}
    ELSE { <<b>> \o d : b \in WorkBytes, d \in Digests(n - 1) }

DigestCalls ==
    { [NoCall EXCEPT !.pc = "called", !.fn = "meets_difficulty", !.hash = d] :
        d \in UNION { Digests(n) : n \in 0..MaxDigest } }

\* a block with another value in one of data, nonce, previous_hash
SingleFieldChanges(b) ==
    { [b EXCEPT !.data = d] : d \in {"a", "b", "c"} \ {b.data} }
        \cup { [b EXCEPT !.nonce = n] : n \in (0..(MaxNonce + 1)) \ {b.nonce} }
        \cup { [b EXCEPT !.previous_hash = h] :
                 h \in { STALE_HASH, <<>>, GENESIS_HASH,
                         [i \in 1..Len(b.previous_hash) |->
                             UpperCase(b.previous_hash[i])] }
                       \ {b.previous_hash} }

ChainCalls ==
    UNION { UNION { { [NoCall EXCEPT !.pc = "called", !.fn = "is_chain_valid",
                                     !.original = c, !.index = i,
                                     !.chain = [c EXCEPT ![i] = t]] :
                        t \in SingleFieldChanges(c[i]) } :
                    i \in 2..Len(c) } :
            c \in UNION { HonestChains(n) : n \in 2..MaxLen } }

InitCalls ==
    /\ NodeIdle
    /\ selection = NoSelection
    /\ NetIdle
    /\ partial_view = {}
    /\ mdns_nodes = {}
    /\ mdns_event = NoMdnsEvent
    /\ call \in BlockCalls \cup DigestCalls \cup ChainCalls

returns(result) ==
    /\ call' = [call EXCEPT !.pc = "returned", !.result = result]
    /\ UNCHANGED <<node_vars, selection, net_vars,
                   partial_view, mdns_nodes, mdns_event>>

validate_block ==
    /\ call.pc = "called" /\ call.fn = "is_block_valid"
    /\ returns(is_block_valid(call.block, call.previous_block))

test_difficulty ==
    /\ call.pc = "called" /\ call.fn = "meets_difficulty"
    /\ returns(IF meets_difficulty(call.hash) THEN "accepted" ELSE "rejected")

validate_chain ==
    /\ call.pc = "called" /\ call.fn = "is_chain_valid"
    /\ returns(is_chain_valid(call.chain))

NextCalls == validate_block \/ test_difficulty \/ validate_chain

SpecCalls == InitCalls /\ [][NextCalls]_vars

(***************************************************************************)
(* Discovery.  Mdns and Floodsub are library types: mdns holds a record     *)
(* <<peer, address>> for each address it has seen and not yet expired, and  *)
(* has_node(peer) tells whether it holds a record of the peer; it adds the  *)
(* records before it reports them as Discovered and drops them before it    *)
(* reports them as Expired.  The partial view of floodsub is a set.         *)
(***************************************************************************)
MdnsPeers == {"peer2", "peer3"}
Addresses == {"addr1", "addr2"}
Records == MdnsPeers \X Addresses

PeersOf(list) == { r[1] : r \in list }

\* Mdns::has_node
has_node(nodes, peer) == \E r \in nodes : r[1] = peer

\* the handler of MdnsEvent that removes every expired peer
mdns_inject_event_unguarded(view, nodes, event) ==
    IF event.kind = "Discovered" THEN view \cup PeersOf(event.list)
    ELSE IF event.kind = "Expired" THEN view \ PeersOf(event.list)
    ELSE view

\* NetworkBehaviourEventProcess<MdnsEvent>::inject_event: the partial view
\* afterwards
mdns_inject_event(view, nodes, event) ==
    IF event.kind = "Discovered" THEN view \cup PeersOf(event.list)
    ELSE IF event.kind = "Expired"
         THEN view \ { peer \in PeersOf(event.list) : ~has_node(nodes, peer) }
    ELSE view

InitMdns ==
    /\ NodeIdle
    /\ selection = NoSelection
    /\ NetIdle
    /\ AuxIdle

\* mdns reports records it has just added
discovered ==
    \E list \in (SUBSET (Records \ mdns_nodes)) \ {{}} :
        /\ mdns_nodes' = mdns_nodes \cup list
        /\ mdns_event' = [kind |-> "Discovered", list |-> list]
        /\ partial_view' = mdns_inject_event(partial_view, mdns_nodes', mdns_event')
        /\ UNCHANGED <<node_vars, selection, net_vars, call>>

\* mdns reports records it has just dropped
expired ==
    \E list \in (SUBSET mdns_nodes) \ {{}} :
        /\ mdns_nodes' = mdns_nodes \ list
        /\ mdns_event' = [kind |-> "Expired", list |-> list]
        /\ partial_view' = mdns_inject_event(partial_view, mdns_nodes', mdns_event')
        /\ UNCHANGED <<node_vars, selection, net_vars, call>>

NextMdns == discovered \/ expired

SpecMdns == InitMdns /\ [][NextMdns]_vars

(***************************************************************************)
(* Properties.  The four checks of the Block Validator are stated here on   *)
(* their own, one conjunct per check.                                       *)
(***************************************************************************)
Linked(block, previous_block) == block.previous_hash = previous_block.hash

\* the difficulty check as the validator makes it: the hash decodes, and
\* the binary text of its bytes begins with two zeros
EnoughWork(block) ==
    /\ hex_decode_ok(block.hash)
    /\ LET bits == hash_to_binary_representation(hex_decode(block.hash))
       IN  Len(bits) >= 2 /\ bits[1] = "0" /\ bits[2] = "0"

Sequential(block, previous_block) == block.id = previous_block.id + 1

Intact(block) ==
    block.hash = hex_encode(calculate_hash(block.id, block.timestamp,
                                block.previous_hash, block.data, block.nonce))

PassesAllFour(block, previous_block) ==
    /\ Linked(block, previous_block)
    /\ EnoughWork(block)
    /\ Sequential(block, previous_block)
    /\ Intact(block)

PairwiseValid(chain) ==
    \A i \in 2..Len(chain) : PassesAllFour(chain[i], chain[i - 1])

\* the genesis constant; its timestamp is the time of the call
IsGenesis(block) == block = genesis_block(block.timestamp)

\* C1: every block of the ledger after the first passes the four checks
\* against the block before it.
C1_LedgerValid == PairwiseValid(blocks)

C1_Witness ==
    /\ status = "running"
    /\ Len(blocks) = 3
    /\ branch_of(last_event) = "Block"
    /\ ~Linked(last_event.block, Last(blocks))

\* C2 (as claimed): once genesis is seeded, the first block of the ledger is
\* the genesis block.
C2_GenesisAnchor == status # "new" => IsGenesis(blocks[1])

\* C4: a step leaves the ledger as it is, appends one block, or replaces
\* the ledger by the blocks of a ChainResponse addressed to this node that
\* are pairwise valid and more than the ledger had.
C4_Step ==
    \/ blocks' = blocks
    \/ /\ Len(blocks') = Len(blocks) + 1
       /\ SubSeq(blocks', 1, Len(blocks)) = blocks
    \/ /\ branch_of(last_event') = "ChainResponse"
       /\ last_event'.receiver = PEER_ID
       /\ blocks' = last_event'.blocks
       /\ PairwiseValid(blocks')
       /\ Len(blocks') > Len(blocks)

C4_AppendOrReplace == [][C4_Step]_vars

C4_Witness ==
    /\ branch_of(last_event) = "ChainResponse"
    /\ blocks = last_event.blocks
    /\ Len(blocks) = 3
    /\ ~IsGenesis(blocks[1])

\* a candidate whose hash is no hex and whose previous_hash links: the
\* announced block, or a block of a chain addressed to this node whose
\* earlier blocks pass
MalformedHash(msg, ledger) ==
    \/ /\ branch_of(msg) = "Block"
       /\ ~hex_decode_ok(msg.block.hash)
       /\ Linked(msg.block, Last(ledger))
    \/ /\ branch_of(msg) = "ChainResponse"
       /\ msg.receiver = PEER_ID
       /\ \E i \in 2..Len(msg.blocks) :
             /\ ~hex_decode_ok(msg.blocks[i].hash)
             /\ Linked(msg.blocks[i], msg.blocks[i - 1])
             /\ PairwiseValid(SubSeq(msg.blocks, 1, i - 1))

\* C8 (as claimed): a candidate with a malformed hash is rejected: the node
\* keeps running, with the ledger it had.
C8_Step ==
    MalformedHash(last_event', blocks) /\ status = "running"
        => status' = "running" /\ blocks' = blocks

C8_MalformedRejected == [][C8_Step]_vars

\* C9: on a Block announcement the candidate is appended if it passes the
\* four checks against the last block, and the ledger is unchanged if not.
C9_Step ==
    branch_of(last_event') = "Block" /\ status = "running" =>
        IF PassesAllFour(last_event'.block, Last(blocks))
        THEN blocks' = Append(blocks, last_event'.block)
        ELSE blocks' = blocks

C9_AppendIffValid == [][C9_Step]_vars

C9_Witness ==
    /\ branch_of(last_event) = "Block"
    /\ Len(blocks) = 2
    /\ IsGenesis(blocks[1])
    /\ blocks[2] = last_event.block

\* C10: a Block announcement that fails a check changes neither the ledger
\* nor the outbound channel.
C10_Step ==
    /\ branch_of(last_event') = "Block"
    /\ status = "running"
    /\ ~PassesAllFour(last_event'.block, Last(blocks))
    => blocks' = blocks /\ response_sender' = response_sender

C10_RejectedNoOp == [][C10_Step]_vars

C10_Witness ==
    /\ branch_of(last_event) = "Block"
    /\ status = "running"
    /\ Len(blocks) = 1
    /\ IsGenesis(blocks[1])
    /\ last_event.block.id = 1
    /\ ~Linked(last_event.block, blocks[1])

MaxOf(S) == CHOOSE n \in S : \A m \in S : m <= n

\* every request was sent and every payload delivered and handled
Quiescent ==
    /\ peers # <<>>
    /\ to_request = {}
    /\ in_flight = {}
    /\ \A p \in Peers : peers[p].response_sender = <<>>

\* C3 (as claimed): after the exchange all peers hold the same chain.
C3_SameChain ==
    Quiescent => \A p \in Peers, q \in Peers : peers[p].blocks = peers[q].blocks

\* C3 (amended): after the exchange all peers hold chains as long as the
\* longest chain a peer started with, and a peer whose chain was longer than
\* every other peer's has given its chain to all.
C3_SameLength ==
    Quiescent =>
        /\ \A p \in Peers :
              Len(peers[p].blocks) = MaxOf({ Len(started_with[q]) : q \in Peers })
        /\ \A p \in Peers :
              (\A q \in Peers \ {p} : Len(started_with[p]) > Len(started_with[q]))
                  => \A q \in Peers : peers[q].blocks = started_with[p]

C3_Witness ==
    /\ Quiescent
    /\ Len(started_with["peer1"]) = 2
    /\ Len(started_with["peer2"]) = 3
    /\ started_with["peer1"][2] # started_with["peer2"][2]
    /\ peers["peer1"].blocks = started_with["peer2"]

BothValid == PairwiseValid(selection.local) /\ PairwiseValid(selection.remote)

\* C5: of two valid chains choose_chain returns the remote one if it is
\* longer and the local one otherwise.
C5_LongerOrLocal ==
    selection.pc = "returned" /\ BothValid =>
        /\ ~selection.panic
        /\ selection.chain = IF Len(selection.remote) > Len(selection.local)
                             THEN selection.remote ELSE selection.local

C5_Witness ==
    /\ selection.pc = "returned"
    /\ BothValid
    /\ Len(selection.local) = 3
    /\ Len(selection.remote) = 3
    /\ selection.local # selection.remote
    /\ selection.chain = selection.local

\* C6 (as claimed): when one of the two chains is valid choose_chain
\* returns that one.
C6_TheValidOne ==
    selection.pc = "returned" =>
        /\ PairwiseValid(selection.local) /\ ~PairwiseValid(selection.remote)
              => ~selection.panic /\ selection.chain = selection.local
        /\ ~PairwiseValid(selection.local) /\ PairwiseValid(selection.remote)
              => ~selection.panic /\ selection.chain = selection.remote

\* C7 (as claimed): when neither chain is valid choose_chain reports it and
\* returns without a panic.
C7_NoValidChainReported ==
    selection.pc = "returned"
        /\ ~PairwiseValid(selection.local) /\ ~PairwiseValid(selection.remote)
        => ~selection.panic

\* C11: the verdict on a candidate is that of the first check that fails,
\* in the order linkage, difficulty, id, hash; a candidate whose link is
\* broken gets that verdict whatever its hash is, hex or not.  (What
\* becomes of a linked candidate whose hash is no hex is C8.)
C11_FirstFailure ==
    call.pc = "returned" /\ call.fn = "is_block_valid" =>
        IF ~Linked(call.block, call.previous_block)
        THEN call.result = "wrong previous hash"
        ELSE hex_decode_ok(call.block.hash) =>
               call.result =
                  IF ~EnoughWork(call.block) THEN "invalid difficulty"
                  ELSE IF ~Sequential(call.block, call.previous_block)
                       THEN "not the next block"
                  ELSE IF ~Intact(call.block) THEN "invalid hash"
                  ELSE "valid"

\* a candidate that fails the difficulty, the id and the hash check at once
C11_Witness ==
    /\ call.pc = "returned" /\ call.fn = "is_block_valid"
    /\ Linked(call.block, call.previous_block)
    /\ hex_decode_ok(call.block.hash)
    /\ ~EnoughWork(call.block)
    /\ ~Sequential(call.block, call.previous_block)
    /\ ~Intact(call.block)
    /\ call.result = "invalid difficulty"

\* the zero bits a byte of 8 bits starts with
LeadingZerosOfByte(b) ==
    IF b >= 128 THEN 0 ELSE IF b >= 64 THEN 1 ELSE IF b >= 32 THEN 2
    ELSE IF b >= 16 THEN 3 ELSE IF b >= 8 THEN 4 ELSE IF b >= 4 THEN 5
    ELSE IF b >= 2 THEN 6 ELSE IF b >= 1 THEN 7 ELSE 8

\* the zero bits a digest starts with
RECURSIVE LeadingZeroBits(_)
LeadingZeroBits(digest) ==
    IF digest = <<>> THEN 0
    ELSE IF Head(digest) = 0 THEN 8 + LeadingZeroBits(Tail(digest))
    ELSE LeadingZerosOfByte(Head(digest))

\* C14 (as claimed): the difficulty test accepts a digest if and only if
\* the digest starts with two zero bits.
C14_AcceptsIffZeroBits ==
    call.pc = "returned" /\ call.fn = "meets_difficulty" =>
        (call.result = "accepted" <=> LeadingZeroBits(call.hash) >= 2)

\* exactly one field of data, nonce, previous_hash differs between a and b
OneFieldDiffers(a, b) ==
    /\ a.id = b.id /\ a.hash = b.hash /\ a.timestamp = b.timestamp
    /\ Cardinality({ f \in {"data", "nonce", "previous_hash"} : a[f] # b[f] }) = 1

\* C15: a valid chain in which one field (data, nonce or previous_hash) of
\* one block after the first was changed is not valid.
C15_TamperDetected ==
    /\ call.pc = "returned" /\ call.fn = "is_chain_valid"
    /\ PairwiseValid(call.original)
    /\ call.index \in 2..Len(call.original)
    /\ call.chain = [call.original EXCEPT ![call.index] = call.chain[call.index]]
    /\ OneFieldDiffers(call.original[call.index], call.chain[call.index])
    => call.result = "invalid"

\* the data of the second of three blocks was changed
C15_Witness ==
    /\ call.pc = "returned" /\ call.fn = "is_chain_valid"
    /\ PairwiseValid(call.original)
    /\ Len(call.original) = 3
    /\ call.index = 2
    /\ call.chain[2].data # call.original[2].data
    /\ call.chain[3] = call.original[3]
    /\ call.result = "invalid"

\* C12: a request that names this node appends one response to the
\* outbound channel, with the ledger as it is and the sender of the request
\* as receiver, and leaves the ledger alone; no step changes a response
\* that is in the channel.
C12_Step ==
    /\ branch_of(last_event') = "LocalChainRequest"
          /\ last_event'.from_peer_id = PEER_ID
          /\ status = "running"
          => /\ response_sender' =
                   Append(response_sender,
                          [blocks |-> blocks, receiver |-> last_event'.source])
             /\ blocks' = blocks
    /\ Len(response_sender') >= Len(response_sender)
    /\ SubSeq(response_sender', 1, Len(response_sender)) = response_sender

C12_SnapshotResponse == [][C12_Step]_vars

\* a response made when the ledger was the genesis block alone, still the
\* same after the ledger has grown
C12_Witness ==
    /\ Len(response_sender) = 1
    /\ response_sender[1].receiver = "peer3"
    /\ Len(response_sender[1].blocks) = 1
    /\ IsGenesis(response_sender[1].blocks[1])
    /\ Len(blocks) = 3

\* C13: a ChainResponse addressed to this node whose blocks are pairwise
\* valid and more than those of the (valid) ledger replaces the ledger.
C13_Step ==
    /\ branch_of(last_event') = "ChainResponse"
    /\ last_event'.receiver = PEER_ID
    /\ status = "running"
    /\ PairwiseValid(blocks)
    /\ PairwiseValid(last_event'.blocks)
    /\ Len(last_event'.blocks) > Len(blocks)
    => blocks' = last_event'.blocks /\ status' = "running"

C13_AdoptsLonger == [][C13_Step]_vars

\* the ledger was [G, B1] when a request was answered, and is now the three
\* blocks of a response, on another second block
C13_Witness ==
    /\ branch_of(last_event) = "ChainResponse"
    /\ last_event.receiver = PEER_ID
    /\ blocks = last_event.blocks
    /\ Len(blocks) = 3
    /\ IsGenesis(blocks[1])
    /\ Len(response_sender) = 1
    /\ Len(response_sender[1].blocks) = 2
    /\ IsGenesis(response_sender[1].blocks[1])
    /\ response_sender[1].blocks[2] # blocks[2]

Misaddressed(msg) ==
    \/ branch_of(msg) = "ChainResponse" /\ msg.receiver # PEER_ID
    \/ branch_of(msg) = "LocalChainRequest" /\ msg.from_peer_id # PEER_ID

\* C16: a ChainResponse for another receiver and a request that names
\* another peer change neither the ledger nor the outbound channel, and the
\* node keeps running.
C16_Step ==
    Misaddressed(last_event') /\ status = "running"
        => /\ blocks' = blocks
           /\ response_sender' = response_sender
           /\ status' = "running"

C16_MisaddressedNoOp == [][C16_Step]_vars

\* a response for another peer whose chain has a hash that is no hex
C16_Witness ==
    /\ branch_of(last_event) = "ChainResponse"
    /\ last_event.receiver # PEER_ID
    /\ last_event.blocks = BadHexChain
    /\ status = "running"
    /\ Len(blocks) = 1

\* C17: a payload is handled as the first kind it parses as, in the order
\* ChainResponse, request, Block, and as no later kind: one that parses as
\* a ChainResponse sends nothing and appends nothing, one that parses as a
\* request (and not as a ChainResponse) leaves the ledger alone, a Block
\* sends nothing, and one that parses as nothing changes nothing.
C17_Step ==
    status = "running" =>
        /\ "ChainResponse" \in last_event'.shapes =>
              /\ response_sender' = response_sender
              /\ \/ blocks' = blocks
                 \/ last_event'.receiver = PEER_ID /\ blocks' = last_event'.blocks
        /\ "ChainResponse" \notin last_event'.shapes
              /\ "LocalChainRequest" \in last_event'.shapes
              => blocks' = blocks /\ status' = "running"
        /\ last_event'.shapes = {"Block"} => response_sender' = response_sender
        /\ last_event'.shapes = {} =>
              /\ blocks' = blocks
              /\ response_sender' = response_sender
              /\ status' = "running"

C17_SingleDispatch == [][C17_Step]_vars

\* a payload that parses as a ChainResponse for another peer and as a Block
\* that passes the four checks: the block was not appended
C17_Witness ==
    /\ last_event.shapes = {"ChainResponse", "Block"}
    /\ last_event.receiver # PEER_ID
    /\ status = "running"
    /\ Len(blocks) = 2
    /\ PassesAllFour(last_event.block, Last(blocks))

\* a payload with a hash that is no hex
HasBadHex(msg) ==
    \/ \E i \in 1..Len(msg.blocks) : ~hex_decode_ok(msg.blocks[i].hash)
    \/ "Block" \in msg.shapes /\ ~hex_decode_ok(msg.block.hash)

\* C19: the ledger given to choose_chain as the local chain is pairwise
\* valid, and a payload whose hashes are all hex does not end the process:
\* choose_chain does not reach its last branch.
C19_Step ==
    status = "running" =>
        /\ branch_of(last_event') = "ChainResponse" /\ last_event'.receiver = PEER_ID
              => PairwiseValid(blocks) /\ is_chain_valid(blocks) = "valid"
        /\ ~HasBadHex(last_event') => status' = "running"

C19_NeverBothInvalid == [][C19_Step]_vars

\* an invalid chain, all hashes hex, was addressed to this node
C19_Witness ==
    /\ branch_of(last_event) = "ChainResponse"
    /\ last_event.receiver = PEER_ID
    /\ ~HasBadHex(last_event)
    /\ ~PairwiseValid(last_event.blocks)
    /\ status = "running"
    /\ Len(blocks) = 2

\* C20: once genesis is seeded the ledger holds a block.
C20_NeverEmpty == status # "new" => Len(blocks) >= 1

\* the empty chain was addressed to this node
C20_Witness ==
    /\ branch_of(last_event) = "ChainResponse"
    /\ last_event.receiver = PEER_ID
    /\ last_event.blocks = <<>>
    /\ status = "running"
    /\ Len(blocks) = 1

\* C18: on Expired a peer of the list leaves the gossip group if mdns holds
\* no record of it any more and stays if mdns still holds one, and no other
\* peer leaves or joins; on Discovered the peers of the list join.
C18_Step ==
    /\ mdns_event'.kind = "Expired" =>
          /\ \A p \in PeersOf(mdns_event'.list) :
                IF \E a \in Addresses : <<p, a>> \in mdns_nodes'
                THEN p \in partial_view' <=> p \in partial_view
                ELSE p \notin partial_view'
          /\ \A p \in MdnsPeers \ PeersOf(mdns_event'.list) :
                p \in partial_view' <=> p \in partial_view
    /\ mdns_event'.kind = "Discovered" =>
          partial_view' = partial_view \cup PeersOf(mdns_event'.list)

C18_GuardedExpiry == [][C18_Step]_vars

\* one address of peer2 expired while mdns still holds the other: peer2 is
\* still in the group
C18_Witness ==
    /\ mdns_event.kind = "Expired"
    /\ <<"peer2", "addr1">> \in mdns_event.list
    /\ <<"peer2", "addr2">> \in mdns_nodes
    /\ "peer2" \in partial_view

====
